---------------------------- MODULE Spec2Model ----------------------------
(***************************************************************************)
(* ctop-web: a model of the Express listing endpoint (server/index.js) and *)
(* of the React dashboard's state (client/src/App.tsx).                    *)
(*                                                                         *)
(*   SpecServer   one GET /api/containers request after another: the list  *)
(*                call, the concurrent per-container payload builds, the   *)
(*                response.                                                *)
(*   Spec         the dashboard: listing fetches, timer ticks, the         *)
(*                selection, the detail cache and the rolling history.     *)
(*                Its timer stays armed; since a tick may come at any      *)
(*                moment or never, pausing adds no behaviour to it.        *)
(*   SpecSelection  Spec without the Refresh button.                       *)
(*   SpecPolling  the polling loop with its Pause and interval controls,   *)
(*                no row selected.                                         *)
(*   SpecHistory  the polling loop over one long-lived container, long     *)
(*                enough for the 40-sample history window to overflow.     *)
(*   SpecFunctions  one call of formatBytes, formatDuration, cpuPercent    *)
(*                or memoryUsage on arguments drawn from its domain.       *)
(*                                                                         *)
(* An event handler and the effects React runs for its state changes are   *)
(* one step.  Numbers printed with one decimal (cpu, memory percent) are   *)
(* kept in tenths.                                                         *)
(***************************************************************************)
EXTENDS Integers, Sequences, FiniteSets, Bags, TLC

(***************************************************************************)
(* Bounds of the model.                                                    *)
(***************************************************************************)
\* containers known to the engine during a listing request
MaxContainers == 2
\* successful listing responses the client applies in a run of Spec
MaxListings == 3
\* fetches (listing and detail together) the client has in flight
MaxInFlight == 2
\* successful listing responses the client applies in a run of SpecHistory
HistoryListings == 42
\* byte counts passed to formatBytes reach 1024^MaxUnitExp and beyond
MaxUnitExp == 5
\* online_cpus of the stats snapshots passed to cpuPercent
MaxOnlineCpus == 2

(***************************************************************************)
(* JavaScript values.                                                      *)
(***************************************************************************)
\* null / undefined where an object is expected
Null == [null |-> TRUE]

\* null where a string is expected (error, lastUpdated, selectedId, ...)
NoString == "<null>"

\* a string from its characters
RECURSIVE Str(_)
Str(chars) == IF chars = <<>> THEN "" ELSE Head(chars) \o Str(Tail(chars))

\* Array.prototype.join(', ')
RECURSIVE JoinComma(_)
JoinComma(entries) ==
    IF entries = <<>> THEN ""
    ELSE IF Len(entries) = 1 THEN entries[1]
    ELSE entries[1] \o ", " \o JoinComma(Tail(entries))

\* String.prototype.substring(0, n)
Substring0(chars, n) == SubSeq(chars, 1, IF Len(chars) < n THEN Len(chars) ELSE n)

\* String.prototype.replace(/^\//, '')
StripLeadingSlash(chars) ==
    IF chars # <<>> /\ Head(chars) = "/" THEN Tail(chars) ELSE chars

\* String.prototype.toLowerCase on the engine's protocol vocabulary
ToLowerCase(s) ==
    CASE s = "TCP" -> "tcp"
      [] s = "UDP" -> "udp"
      [] OTHER -> s

\* Number.prototype.toFixed(0) of num/den (num >= 0, den > 0), as an integer:
\* the nearest integer, the larger one of two equally near
ToFixed0(num, den) == (num \div den) + (2 * (num % den) + den) \div (2 * den)

\* Number.prototype.toFixed(1) of num/den (num >= 0, den > 0), in tenths
ToFixed1(num, den) ==
    10 * (num \div den) + (20 * (num % den) + den) \div (2 * den)

\* the decimal text of a number given in tenths, as toFixed(1) prints it
TenthsText(t) == ToString(t \div 10) \o "." \o ToString(t % 10)


\* a JavaScript number: NaN, or num / den * 1024^exp; the exponent carries
\* the byte counts that 32 bits cannot hold
Num(n) == [nan |-> FALSE, num |-> n, den |-> 1, exp |-> 0]
Ratio(n, d) == [nan |-> FALSE, num |-> n, den |-> d, exp |-> 0]
Scaled(n, e) == [nan |-> FALSE, num |-> n, den |-> 1, exp |-> e]
NaN == [nan |-> TRUE, num |-> 0, den |-> 1, exp |-> 0]

\* Number(x.toFixed(1)) of a non-negative JavaScript number, in tenths
FixedTenths(x) == IF x.nan THEN NaN ELSE Num(ToFixed1(x.num, x.den))

(***************************************************************************)
(* server/index.js: the unit formatter.                                    *)
(***************************************************************************)
units == <<"B", "K", "M", "G", "T">>
k == 1024

\* Math.floor(Math.log(bytes) / Math.log(k)) for an integer bytes >= 1
RECURSIVE FloorLogK(_)
FloorLogK(bytes) == IF bytes < k THEN 0 ELSE 1 + FloorLogK(bytes \div k)

\* Math.pow(k, i)
RECURSIVE PowK(_)
PowK(i) == IF i = 0 THEN 1 ELSE k * PowK(i - 1)

\* units[i], "undefined" past the table
UnitAt(i) == IF i + 1 \in DOMAIN units THEN units[i + 1] ELSE "undefined"

\* formatBytes(bytes): bytes is Null, NaN or an integer num * k^exp.
\* Math.log of a negative number is NaN, and so are i and value then.
\* Otherwise i = FloorLogK(num) + exp and value = bytes / k^i = num / p.
formatBytes(bytes) ==
    IF bytes = Null \/ bytes.nan THEN "-"
    ELSE IF bytes.num = 0 THEN "0B"
    ELSE IF bytes.num < 0 THEN "NaN" \o "undefined"
    ELSE LET i == FloorLogK(bytes.num) + bytes.exp
             p == PowK(FloorLogK(bytes.num))
         IN  IF bytes.num >= 10 * p \/ i = 0
             THEN ToString(ToFixed0(bytes.num, p)) \o UnitAt(i)
             ELSE TenthsText(ToFixed1(bytes.num, p)) \o UnitAt(i)

\* a timestamp string: missing, unparseable, or an instant in milliseconds
NoTime == [kind |-> "missing", ms |-> 0]
BadTime == [kind |-> "invalid", ms |-> 0]
TimeAt(ms) == [kind |-> "time", ms |-> ms]

\* formatDuration(start), with Date.now() = now
formatDurationTwoUnits(start, now) ==
    IF start.kind = "missing" THEN "-"
    ELSE IF start.kind = "invalid" THEN "-"
    ELSE LET diff == now - start.ms IN
         IF diff < 0 THEN "-"
         ELSE LET seconds == diff \div 1000
                  days == seconds \div 86400
                  hours == (seconds % 86400) \div 3600
                  minutes == (seconds % 3600) \div 60
                  secs == seconds % 60
              IN  IF days > 0
                  THEN ToString(days) \o "d" \o ToString(hours) \o "h"
                           \o ToString(minutes) \o "m"
                  ELSE IF hours > 0
                  THEN ToString(hours) \o "h" \o ToString(minutes) \o "m"
                  ELSE IF minutes > 0
                  THEN ToString(minutes) \o "m" \o ToString(secs) \o "s"
                  ELSE ToString(secs) \o "s"

formatDuration(start, now) ==
    IF start.kind = "missing" THEN "-"
    ELSE IF start.kind = "invalid" THEN "-"
    ELSE LET diff == now - start.ms IN
         IF diff < 0 THEN "-"
         ELSE LET seconds == diff \div 1000
                  days == seconds \div 86400
                  hours == (seconds % 86400) \div 3600
                  minutes == (seconds % 3600) \div 60
                  secs == seconds % 60
              IN  IF days > 0
                  THEN ToString(days) \o "d" \o ToString(hours) \o "h"
                           \o ToString(minutes) \o "m"
                  ELSE IF hours > 0
                  THEN ToString(hours) \o "h" \o ToString(minutes) \o "m"
                           \o ToString(secs) \o "s"
                  ELSE IF minutes > 0
                  THEN ToString(minutes) \o "m" \o ToString(secs) \o "s"
                  ELSE ToString(secs) \o "s"

(***************************************************************************)
(* server/index.js: the metric extractor.  A stats snapshot is Null or     *)
(*   [cpu_stats    |-> [total_usage, system_cpu_usage, online_cpus,        *)
(*                      percpu_usage |-> [present, length]],               *)
(*    precpu_stats |-> [total_usage, system_cpu_usage],                    *)
(*    memory_stats |-> [has_usage, usage, cache, limit],                   *)
(*    networks     |-> [present, nics |-> <<[rx_bytes, tx_bytes]>>],       *)
(*    blkio        |-> [is_array, entries |-> <<[op, value]>>],            *)
(*    pids_current |-> n]                                                  *)
(* with 0 for an absent number and Null for an absent object.              *)
(***************************************************************************)
cpuPercentPrefersPerCpuList(stats) ==
    IF stats = Null \/ stats.precpu_stats = Null \/ stats.cpu_stats = Null
    THEN Num(0)
    ELSE LET cpuDelta == stats.cpu_stats.total_usage - stats.precpu_stats.total_usage
             systemDelta == stats.cpu_stats.system_cpu_usage
                              - stats.precpu_stats.system_cpu_usage
             cores == IF stats.cpu_stats.percpu_usage.present
                      THEN stats.cpu_stats.percpu_usage.length
                      ELSE IF stats.cpu_stats.online_cpus # 0
                           THEN stats.cpu_stats.online_cpus
                           ELSE 1
         IN  IF cpuDelta > 0 /\ systemDelta > 0
             THEN Ratio(cpuDelta * cores * 100, systemDelta)
             ELSE Num(0)

cpuPercent(stats) ==
    IF stats = Null \/ stats.precpu_stats = Null \/ stats.cpu_stats = Null
    THEN Num(0)
    ELSE LET cpuDelta == stats.cpu_stats.total_usage - stats.precpu_stats.total_usage
             systemDelta == stats.cpu_stats.system_cpu_usage
                              - stats.precpu_stats.system_cpu_usage
             cores == IF stats.cpu_stats.online_cpus # 0
                      THEN stats.cpu_stats.online_cpus
                      ELSE IF stats.cpu_stats.percpu_usage.present
                           THEN stats.cpu_stats.percpu_usage.length
                           ELSE 1
         IN  IF cpuDelta > 0 /\ systemDelta > 0
             THEN Ratio(cpuDelta * cores * 100, systemDelta)
             ELSE Num(0)

memoryUsageUnclamped(stats) ==
    IF stats = Null \/ stats.memory_stats = Null
    THEN [usage |-> Num(0), limit |-> 0, percent |-> Num(0)]
    ELSE LET cache == stats.memory_stats.cache
             usage == IF stats.memory_stats.has_usage
                      THEN Num(stats.memory_stats.usage - cache)
                      ELSE NaN
             limit == stats.memory_stats.limit
             percent == IF limit # 0
                        THEN (IF usage.nan THEN NaN ELSE Ratio(usage.num * 100, limit))
                        ELSE Num(0)
         IN  [usage |-> usage, limit |-> limit, percent |-> percent]

memoryUsage(stats) ==
    IF stats = Null \/ stats.memory_stats = Null
    THEN [usage |-> Num(0), limit |-> 0, percent |-> Num(0)]
    ELSE LET cache == stats.memory_stats.cache
             usage == IF stats.memory_stats.has_usage
                      THEN (IF stats.memory_stats.usage - cache > 0
                            THEN Num(stats.memory_stats.usage - cache)
                            ELSE Num(0))
                      ELSE NaN
             limit == stats.memory_stats.limit
             percent == IF limit # 0
                        THEN (IF usage.nan THEN NaN ELSE Ratio(usage.num * 100, limit))
                        ELSE Num(0)
         IN  [usage |-> usage, limit |-> limit, percent |-> percent]

RECURSIVE SumField(_, _)
SumField(recs, f) == IF recs = <<>> THEN 0 ELSE Head(recs)[f] + SumField(Tail(recs), f)

networkIO(stats) ==
    IF stats = Null \/ ~stats.networks.present THEN [rx |-> 0, tx |-> 0]
    ELSE [rx |-> SumField(stats.networks.nics, "rx_bytes"),
          tx |-> SumField(stats.networks.nics, "tx_bytes")]

RECURSIVE SumOp(_, _)
SumOp(entries, op) ==
    IF entries = <<>> THEN 0
    ELSE (IF Head(entries).op = op THEN Head(entries).value ELSE 0)
             + SumOp(Tail(entries), op)

blockIO(stats) ==
    IF stats = Null \/ ~stats.blkio.is_array THEN [read |-> 0, write |-> 0]
    ELSE [read |-> SumOp(stats.blkio.entries, "Read"),
          write |-> SumOp(stats.blkio.entries, "Write")]

(***************************************************************************)
(* server/index.js: ports, networks and state of a container.              *)
(*   a listed port is [PrivatePort, PublicPort, Type, IP] with 0 and ""    *)
(*   for an absent PublicPort, Type or IP; inspect data is Null or         *)
(*   [State |-> [Paused, Restarting, Running, Pid, StartedAt],             *)
(*    NetworkSettings |-> [has_networks, Networks |-> <<[name, IPAddress]>>]]*)
(***************************************************************************)
formatPort(port) ==
    LET proto == IF port.Type # "" THEN ToLowerCase(port.Type) ELSE "tcp"
        container == ToString(port.PrivatePort) \o "/" \o proto
    IN  IF port.PublicPort # 0
        THEN LET host == IF port.IP # "" /\ port.IP # "0.0.0.0"
                         THEN port.IP ELSE "0.0.0.0"
             IN  host \o ":" \o ToString(port.PublicPort) \o " -> " \o container
        ELSE container

formatPorts(ports) ==
    IF ports = Null \/ Len(ports.list) = 0 THEN "-"
    ELSE JoinComma([i \in 1..Len(ports.list) |-> formatPort(ports.list[i])])

formatNetworks(networkSettings) ==
    IF networkSettings = Null \/ ~networkSettings.has_networks THEN "-"
    ELSE LET nets == networkSettings.Networks
             entries == [i \in 1..Len(nets) |->
                            nets[i].name \o ":" \o
                            (IF nets[i].IPAddress # "" THEN nets[i].IPAddress
                                                       ELSE "0.0.0.0")]
         IN  IF Len(entries) # 0 THEN JoinComma(entries) ELSE "-"

containerState(inspectData) ==
    IF inspectData = Null \/ inspectData.State = Null THEN "unknown"
    ELSE IF inspectData.State.Paused THEN "paused"
    ELSE IF inspectData.State.Restarting THEN "restarting"
    ELSE IF inspectData.State.Running THEN "running"
    ELSE "stopped"

\* containerInfo.Id.substring(0, 12)
ShortIdLen == 12

\* the ContainerSummary of buildContainerPayload (lines 150-191) from the
\* list entry and the inspect and stats data the build ended up with;
\* cpu and memory.percent are in tenths
Summary(containerInfo, inspectInfo, stats, now) ==
    LET cpu == cpuPercent(stats)
        mem == memoryUsage(stats)
        net == networkIO(stats)
        blk == blockIO(stats)
        pids == IF stats # Null /\ stats.pids_current # 0 THEN stats.pids_current
                ELSE IF inspectInfo # Null /\ inspectInfo.State # Null
                        /\ inspectInfo.State.Pid # 0
                     THEN inspectInfo.State.Pid
                     ELSE 0
        uptime == IF inspectInfo # Null
                  THEN formatDuration(IF inspectInfo.State # Null
                                      THEN inspectInfo.State.StartedAt
                                      ELSE NoTime, now)
                  ELSE "-"
        networks == IF inspectInfo # Null
                    THEN formatNetworks(inspectInfo.NetworkSettings)
                    ELSE "-"
    IN  [id |-> Str(containerInfo.Id),
         name |-> IF Len(containerInfo.Names) > 0 /\ containerInfo.Names[1] # <<>>
                  THEN Str(StripLeadingSlash(containerInfo.Names[1]))
                  ELSE Str(Substring0(containerInfo.Id, ShortIdLen)),
         state |-> containerState(inspectInfo),
         ports |-> formatPorts(containerInfo.Ports),
         networks |-> networks,
         cpu |-> ToFixed1(cpu.num, cpu.den),
         memory |-> [usage |-> formatBytes(mem.usage),
                     limit |-> formatBytes(Num(mem.limit)),
                     percent |-> FixedTenths(mem.percent)],
         netIO |-> [rx |-> formatBytes(Num(net.rx)), tx |-> formatBytes(Num(net.tx))],
         netIOBytes |-> [rx |-> net.rx, tx |-> net.tx],
         blockIO |-> [read |-> formatBytes(Num(blk.read)),
                      write |-> formatBytes(Num(blk.write))],
         blockIOBytes |-> [read |-> blk.read, write |-> blk.write],
         pids |-> pids,
         uptime |-> uptime,
         raw |-> [shortId |-> Str(Substring0(containerInfo.Id, ShortIdLen))]]

(***************************************************************************)
(* The container engine, as the listing endpoint sees it: container n's    *)
(* list entry, inspect data and stats snapshot.  The containers differ so  *)
(* that every branch of the payload builder is taken by one of them.       *)
(***************************************************************************)
Containers == 1..MaxContainers

\* Date.now() of a request, in milliseconds
NowChoices == {5000, 200000000}

EngineInfo(n) ==
    [Id |-> <<"3", "f", "a", "9", "c", "0", "d", "e", "7", "7", "b">>
               \o <<ToString(n % 10)>> \o <<"a", "4">>,
     Names |-> IF n % 2 = 1 THEN << <<"/", "w", "e", "b", ToString(n % 10)>> >>
               ELSE << >>,
     Ports |-> IF n % 3 = 1
               THEN [list |-> << [PrivatePort |-> 80, PublicPort |-> 8080,
                                  Type |-> "tcp", IP |-> "0.0.0.0"],
                                 [PrivatePort |-> 53, PublicPort |-> 0,
                                  Type |-> "UDP", IP |-> ""] >>]
               ELSE IF n % 3 = 2 THEN [list |-> << >>]
               ELSE Null]

EngineInspect(n) ==
    [State |-> [Paused |-> n % 4 = 2,
                Restarting |-> n % 4 = 0,
                Running |-> n % 4 # 3,
                Pid |-> IF n % 4 = 3 THEN 0 ELSE 4000 + n,
                StartedAt |-> IF n % 4 = 3 THEN TimeAt(300000000)
                              ELSE TimeAt(1000 * n)],
     NetworkSettings |->
         IF n % 2 = 1
         THEN [has_networks |-> TRUE,
               Networks |-> << [name |-> "bridge", IPAddress |-> "172.17.0.2"],
                               [name |-> "backend", IPAddress |-> ""] >>]
         ELSE [has_networks |-> TRUE, Networks |-> << >>]]

EngineStats(n) ==
    IF n % 3 = 1
    THEN [cpu_stats |-> [total_usage |-> 700000, system_cpu_usage |-> 5000000,
                         online_cpus |-> 2,
                         percpu_usage |-> [present |-> FALSE, length |-> 0]],
          precpu_stats |-> [total_usage |-> 500000, system_cpu_usage |-> 4000000],
          memory_stats |-> [has_usage |-> TRUE, usage |-> 3072, cache |-> 1536,
                            limit |-> 8192],
          networks |-> [present |-> TRUE,
                        nics |-> << [rx_bytes |-> 1024, tx_bytes |-> 512],
                                    [rx_bytes |-> 512, tx_bytes |-> 0] >>],
          blkio |-> [is_array |-> TRUE,
                     entries |-> << [op |-> "Read", value |-> 4096],
                                    [op |-> "Write", value |-> 100],
                                    [op |-> "Sync", value |-> 7],
                                    [op |-> "read", value |-> 9] >>],
          pids_current |-> 3]
    ELSE IF n % 3 = 2
    THEN [cpu_stats |-> [total_usage |-> 900000, system_cpu_usage |-> 4000000,
                         online_cpus |-> 0,
                         percpu_usage |-> [present |-> TRUE, length |-> 4]],
          precpu_stats |-> [total_usage |-> 500000, system_cpu_usage |-> 4000000],
          memory_stats |-> [has_usage |-> TRUE, usage |-> 1000, cache |-> 2000,
                            limit |-> 0],
          networks |-> [present |-> FALSE, nics |-> << >>],
          blkio |-> [is_array |-> FALSE, entries |-> << >>],
          pids_current |-> 0]
    ELSE [cpu_stats |-> [total_usage |-> 0, system_cpu_usage |-> 0,
                         online_cpus |-> 0,
                         percpu_usage |-> [present |-> FALSE, length |-> 0]],
          precpu_stats |-> [total_usage |-> 0, system_cpu_usage |-> 0],
          memory_stats |-> [has_usage |-> FALSE, usage |-> 0, cache |-> 0,
                            limit |-> 0],
          networks |-> [present |-> FALSE, nics |-> << >>],
          blkio |-> [is_array |-> TRUE, entries |-> << >>],
          pids_current |-> 0]

\* the results of docker.listContainers({ all: true }): the containers the
\* engine knows, in its order, or any part of them
RECURSIVE Ascending(_)
Ascending(S) ==
    IF S = {} THEN << >>
    ELSE LET m == CHOOSE x \in S : \A y \in S : x <= y
         IN  <<m>> \o Ascending(S \ {m})

Listings == {Ascending(S) : S \in SUBSET Containers}

(***************************************************************************)
(* State.                                                                  *)
(***************************************************************************)
VARIABLES
    \* ---- server: one GET /api/containers request ----
    reqState,       \* "idle", "listing", "building" or "responded"
    listResult,     \* "none", "ok" or "failed": how docker.listContainers ended
    listed,         \* the containers the list call returned, in order
    builds,         \* builds[i]: the buildContainerPayload call for listed[i]
    response,       \* [status, containers]; status 0 while nothing was sent
    now,            \* Date.now() during the request
    \* ---- client: the state of App ----
    containers, loading, refreshing, error, refreshMs, isPaused, lastUpdated,
    selectedId, detailById, detailLoading, detailError, history,
    listFetches,    \* bag of the loadContainers calls awaiting fetchContainers
    detailFetches,  \* bag of the loadDetail calls awaiting fetchContainerDetail
    timers,         \* the armed setInterval timers, each its delay
    applied,        \* successful listing responses applied so far
    \* ---- a call of one of the server's pure functions ----
    call,           \* [fn, ...]: the function and its arguments; fn "none"
                    \* while the program itself runs
    returned        \* [done, value]: what the call returned

serverVars == <<reqState, listResult, listed, builds, response, now>>
clientVars == <<containers, loading, refreshing, error, refreshMs, isPaused,
                lastUpdated, selectedId, detailById, detailLoading, detailError,
                history, listFetches, detailFetches, timers, applied>>
callVars == <<call, returned>>
vars == <<serverVars, clientVars, callVars>>

(***************************************************************************)
(* server/index.js: buildContainerPayload and GET /api/containers.         *)
(***************************************************************************)
NoResponse == [status |-> 0, containers |-> << >>]

\* a build right after its synchronous start: inspect and stats are issued
\* together (Promise.all), nothing is assigned yet
StartedBuild ==
    [pc |-> "round1", inspectInfo |-> Null, stats |-> Null,
     inspectCalls |-> 1, statsCalls |-> 1,
     firstInspect |-> "pending", firstStats |-> "pending", retry |-> "none",
     payload |-> Null]

\* lines 150-191: the rest of the function runs to its return
Finish(b, n, t) ==
    [b EXCEPT !.pc = "done",
              !.payload = Summary(EngineInfo(n), b.inspectInfo, b.stats, t)]

\* lines 137-144: the await of Promise.all ends.  Both results are assigned
\* only when both queries succeeded; on a rejection the catch block runs with
\* inspectInfo and stats still null and issues inspect again.
AfterFirstRoundKeepsInspect(b, n, iOk, sOk, t) ==
    LET seen == [b EXCEPT !.firstInspect = IF iOk THEN "ok" ELSE "failed",
                          !.firstStats = IF sOk THEN "ok" ELSE "failed",
                          !.inspectInfo = IF iOk THEN EngineInspect(n) ELSE Null,
                          !.stats = IF iOk /\ sOk THEN EngineStats(n) ELSE Null]
    IN  IF seen.inspectInfo # Null
        THEN Finish(seen, n, t)
        ELSE [seen EXCEPT !.pc = "retry", !.retry = "pending",
                          !.inspectCalls = @ + 1]

AfterFirstRoundKeepsStats(b, n, iOk, sOk, t) ==
    LET seen == [b EXCEPT !.firstInspect = IF iOk THEN "ok" ELSE "failed",
                          !.firstStats = IF sOk THEN "ok" ELSE "failed",
                          !.stats = IF sOk THEN EngineStats(n) ELSE Null]
    IN  IF iOk /\ sOk
        THEN Finish([seen EXCEPT !.inspectInfo = EngineInspect(n)], n, t)
        ELSE [seen EXCEPT !.pc = "retry", !.retry = "pending",
                          !.inspectCalls = @ + 1]

AfterFirstRound(b, n, iOk, sOk, t) ==
    LET seen == [b EXCEPT !.firstInspect = IF iOk THEN "ok" ELSE "failed",
                          !.firstStats = IF sOk THEN "ok" ELSE "failed"]
    IN  IF iOk /\ sOk
        THEN Finish([seen EXCEPT !.inspectInfo = EngineInspect(n),
                                 !.stats = EngineStats(n)], n, t)
        ELSE IF seen.inspectInfo # Null
             THEN Finish(seen, n, t)
             ELSE [seen EXCEPT !.pc = "retry", !.retry = "pending",
                               !.inspectCalls = @ + 1]

\* lines 143-148: the await of the second inspect ends; its rejection is
\* caught and ignored
AfterRetryThrows(b, n, ok, t) ==
    IF ok
    THEN Finish([b EXCEPT !.retry = "ok", !.inspectInfo = EngineInspect(n)], n, t)
    ELSE [b EXCEPT !.retry = "failed", !.pc = "threw"]

AfterRetry(b, n, ok, t) ==
    IF ok
    THEN Finish([b EXCEPT !.retry = "ok", !.inspectInfo = EngineInspect(n)], n, t)
    ELSE Finish([b EXCEPT !.retry = "failed"], n, t)

\* a request arrives: docker.listContainers({ all: true }) is issued
Request ==
    /\ reqState \in {"idle", "responded"}
    /\ reqState' = "listing"
    /\ listResult' = "none"
    /\ listed' = << >>
    /\ builds' = << >>
    /\ response' = NoResponse
    /\ now' \in NowChoices
    /\ UNCHANGED <<clientVars, callVars>>

\* the list call rejects: the handler's catch answers 500
ListFails ==
    /\ reqState = "listing"
    /\ listResult' = "failed"
    /\ response' = [status |-> 500, containers |-> << >>]
    /\ reqState' = "responded"
    /\ UNCHANGED <<listed, builds, now>>
    /\ UNCHANGED <<clientVars, callVars>>

\* the list call resolves: containers.map(buildContainerPayload) starts
\* every build, each up to its first await
ListSucceeds ==
    /\ reqState = "listing"
    /\ \E l \in Listings :
          /\ listed' = l
          /\ builds' = [i \in 1..Len(l) |-> StartedBuild]
    /\ listResult' = "ok"
    /\ reqState' = "building"
    /\ UNCHANGED <<response, now>>
    /\ UNCHANGED <<clientVars, callVars>>

FirstRound ==
    /\ reqState = "building"
    /\ \E i \in DOMAIN builds, iOk \in BOOLEAN, sOk \in BOOLEAN :
          /\ builds[i].pc = "round1"
          /\ builds' = [builds EXCEPT
                           ![i] = AfterFirstRound(builds[i], listed[i], iOk, sOk, now)]
    /\ UNCHANGED <<reqState, listResult, listed, response, now>>
    /\ UNCHANGED <<clientVars, callVars>>

Retry ==
    /\ reqState = "building"
    /\ \E i \in DOMAIN builds, ok \in BOOLEAN :
          /\ builds[i].pc = "retry"
          /\ builds' = [builds EXCEPT
                           ![i] = AfterRetry(builds[i], listed[i], ok, now)]
    /\ UNCHANGED <<reqState, listResult, listed, response, now>>
    /\ UNCHANGED <<clientVars, callVars>>

\* the await of Promise.all over the builds ends: with their payloads when
\* all returned, by the first rejection when one threw
Respond ==
    /\ reqState = "building"
    /\ (\A i \in DOMAIN builds : builds[i].pc # "threw")
          => (\A i \in DOMAIN builds : builds[i].pc = "done")
    /\ response' =
          IF \E i \in DOMAIN builds : builds[i].pc = "threw"
          THEN [status |-> 500, containers |-> << >>]
          ELSE [status |-> 200,
                containers |-> [i \in DOMAIN builds |-> builds[i].payload]]
    /\ reqState' = "responded"
    /\ UNCHANGED <<listResult, listed, builds, now>>
    /\ UNCHANGED <<clientVars, callVars>>

(***************************************************************************)
(* client/src/App.tsx: constants and the data the server sends.            *)
(***************************************************************************)
REFRESH_OPTIONS == <<3000, 5000, 10000, 30000>>
HISTORY_POINTS == 40

\* container ids the client gets to see
ContainerIds == {"a", "b"}
\* the container that stays listed in SpecHistory
LongLivedIds == {"a"}

\* a JSON number as the client reads it: finite, or null (a NaN serialised)
JNum(v) == [finite |-> TRUE, v |-> v]
JNull == [finite |-> FALSE, v |-> 0]

\* the summary of container id in the n-th listing response: "a" carries
\* every field, "b" comes with a null cpu and without the raw byte counters
SummaryOf(id, n) ==
    IF id = "a"
    THEN [id |-> id, cpu |-> JNum(n), memory |-> [percent |-> JNum(100 + n)],
          netIOBytes |-> [rx |-> JNum(200 + n), tx |-> JNum(300 + n)],
          blockIOBytes |-> [read |-> JNum(400 + n), write |-> JNum(500 + n)]]
    ELSE [id |-> id, cpu |-> JNull, memory |-> [percent |-> JNum(100 + n)],
          netIOBytes |-> Null,
          blockIOBytes |-> [read |-> JNum(400 + n), write |-> JNull]]

\* the listings the endpoint may answer with, ids in the engine's order
IdOrder == <<"a", "b">>

RECURSIVE Keep(_, _)
Keep(ids, S) ==
    IF ids = << >> THEN << >>
    ELSE (IF Head(ids) \in S THEN <<Head(ids)>> ELSE << >>) \o Keep(Tail(ids), S)

Datasets(n, ids) ==
    { [i \in 1..Len(Keep(IdOrder, S)) |-> SummaryOf(Keep(IdOrder, S)[i], n)] :
          S \in SUBSET ids }

\* the ContainerDetail records the detail endpoint may answer with
DetailsOf(id) == { [id |-> id, status |-> st] : st \in {"running", "exited"} }

\* data.fetchedAt of the n-th listing response
FetchedAt(n) == "t" \o ToString(n)

ListErrors == {"Failed to load container stats"}
DetailErrors == {"Failed to load container detail"}

Ids(cs) == { cs[i].id : i \in DOMAIN cs }

(***************************************************************************)
(* App.tsx lines 152-181: the history effect.                              *)
(***************************************************************************)
\* Array.prototype.slice(-n)
SliceLast(list, n) ==
    IF Len(list) <= n THEN list ELSE SubSeq(list, Len(list) - n + 1, Len(list))

\* append (lines 155-158)
appendDropsNewest(list, value) ==
    LET nextList == list \o <<IF value.finite THEN value.v ELSE 0>>
    IN  IF Len(nextList) <= HISTORY_POINTS THEN nextList
        ELSE SubSeq(nextList, 1, HISTORY_POINTS)

append(list, value) ==
    LET nextList == list \o <<IF value.finite THEN value.v ELSE 0>>
    IN  SliceLast(nextList, HISTORY_POINTS)

EmptyHistory ==
    [cpu |-> << >>, mem |-> << >>, netRx |-> << >>, netTx |-> << >>,
     blockRead |-> << >>, blockWrite |-> << >>]

\* x?.f ?? 0
FieldOrZero(x, f) == IF x = Null THEN JNum(0) ELSE x[f]

\* the entry of the last container carrying id (forEach overwrites next[id])
LastWith(cs, id) == cs[CHOOSE i \in DOMAIN cs :
                          /\ cs[i].id = id
                          /\ \A j \in DOMAIN cs : cs[j].id = id => j <= i]

\* the history record of container id after a listing cs that carries it
NextHistoryOfRestartsBlockWrite(prev, cs, id) ==
    LET container == LastWith(cs, id)
        current == IF id \in DOMAIN prev THEN prev[id] ELSE EmptyHistory
    IN  [cpu |-> append(current.cpu, container.cpu),
         mem |-> append(current.mem, container.memory.percent),
         netRx |-> append(current.netRx, FieldOrZero(container.netIOBytes, "rx")),
         netTx |-> append(current.netTx, FieldOrZero(container.netIOBytes, "tx")),
         blockRead |-> append(current.blockRead,
                              FieldOrZero(container.blockIOBytes, "read")),
         blockWrite |-> append(<< >>, FieldOrZero(container.blockIOBytes, "write"))]

NextHistoryOf(prev, cs, id) ==
    LET container == LastWith(cs, id)
        current == IF id \in DOMAIN prev THEN prev[id] ELSE EmptyHistory
    IN  [cpu |-> append(current.cpu, container.cpu),
         mem |-> append(current.mem, container.memory.percent),
         netRx |-> append(current.netRx, FieldOrZero(container.netIOBytes, "rx")),
         netTx |-> append(current.netTx, FieldOrZero(container.netIOBytes, "tx")),
         blockRead |-> append(current.blockRead,
                              FieldOrZero(container.blockIOBytes, "read")),
         blockWrite |-> append(current.blockWrite,
                               FieldOrZero(container.blockIOBytes, "write"))]

HistoryEffectKeepsAbsent(prev, cs) ==
    [id \in DOMAIN prev \cup Ids(cs) |->
        IF id \in Ids(cs) THEN NextHistoryOf(prev, cs, id) ELSE prev[id]]

HistoryEffect(prev, cs) ==
    [id \in Ids(cs) |-> NextHistoryOf(prev, cs, id)]

\* lines 183-187: the selection-reset effect
SelectionEffectKeeps(cs, sel) == sel

SelectionEffect(cs, sel) ==
    IF sel # NoString /\ sel \notin Ids(cs) THEN NoString ELSE sel

\* lines 144-150: the interval effect re-runs after isPaused or refreshMs
\* changed: the cleanup of its previous run clears the timer that run armed
\* (none if it ran paused), then a timer is armed unless paused
TimerEffectKeepsOld(ts, wasPaused, paused, ms) ==
    IF paused THEN ts ELSE Append(ts, ms)

TimerEffect(ts, wasPaused, paused, ms) ==
    LET cleaned == IF wasPaused THEN ts ELSE SubSeq(ts, 1, Len(ts) - 1)
    IN  IF paused THEN cleaned ELSE Append(cleaned, ms)

(***************************************************************************)
(* client/src/App.tsx: the fetches in flight.  A fetch is "pending" until  *)
(* its promise settles ("resolved" or "rejected"); the continuation of     *)
(* loadContainers / loadDetail then runs as a step of its own.             *)
(***************************************************************************)
One(x) == SetToBag({x})

InFlight == BagCardinality(listFetches) + BagCardinality(detailFetches)

Resolved(fetches) ==
    BagCardinality([f \in {g \in BagToSet(fetches) : g.status = "resolved"} |->
                        fetches[f]])

\* loadContainers up to its await (lines 115-124)
StartLoadAlwaysSilent(silent) ==
    /\ refreshing' = TRUE
    /\ loading' = loading
    /\ listFetches' = listFetches (+) One([silent |-> TRUE, status |-> "pending"])

StartLoad(silent) ==
    /\ refreshing' = (IF silent THEN TRUE ELSE refreshing)
    /\ loading' = (IF silent THEN loading ELSE TRUE)
    /\ listFetches' = listFetches (+) One([silent |-> silent, status |-> "pending"])

\* loadDetail up to its await (lines 211-215)
StartDetail(containerId) ==
    /\ detailLoading' = TRUE
    /\ detailError' = NoString
    /\ detailFetches' = detailFetches (+) One([id |-> containerId, status |-> "pending"])

\* an interval timer fires (lines 146-148)
Tick ==
    /\ \E i \in DOMAIN timers : timers[i] > 0
    /\ InFlight < MaxInFlight
    /\ StartLoad(TRUE)
    /\ UNCHANGED <<containers, error, refreshMs, isPaused, lastUpdated, selectedId,
                   detailById, detailLoading, detailError, history, detailFetches,
                   timers, applied>>
    /\ UNCHANGED <<serverVars, callVars>>

\* the Refresh button (lines 203, 266), disabled while loading
handleManualRefresh ==
    /\ ~loading
    /\ InFlight < MaxInFlight
    /\ StartLoad(FALSE)
    /\ UNCHANGED <<containers, error, refreshMs, isPaused, lastUpdated, selectedId,
                   detailById, detailLoading, detailError, history, detailFetches,
                   timers, applied>>
    /\ UNCHANGED <<serverVars, callVars>>

\* the Pause Auto / Resume Auto button (line 269) and the interval effect
TogglePause ==
    /\ isPaused' = ~isPaused
    /\ timers' = TimerEffect(timers, isPaused, ~isPaused, refreshMs)
    /\ UNCHANGED <<containers, loading, refreshing, error, refreshMs, lastUpdated,
                   selectedId, detailById, detailLoading, detailError, history,
                   listFetches, detailFetches, applied>>
    /\ UNCHANGED <<serverVars, callVars>>

\* the interval select (line 272) and the interval effect
SetRefreshMs ==
    /\ \E i \in DOMAIN REFRESH_OPTIONS :
          /\ REFRESH_OPTIONS[i] # refreshMs
          /\ refreshMs' = REFRESH_OPTIONS[i]
          /\ timers' = TimerEffect(timers, isPaused, isPaused, REFRESH_OPTIONS[i])
    /\ UNCHANGED <<containers, loading, refreshing, error, isPaused, lastUpdated,
                   selectedId, detailById, detailLoading, detailError, history,
                   listFetches, detailFetches, applied>>
    /\ UNCHANGED <<serverVars, callVars>>

\* fetchContainers settles (api.ts): at most maxListings responses succeed
FetchContainersSettles(maxListings) ==
    /\ \E f \in BagToSet(listFetches), ok \in BOOLEAN :
          /\ f.status = "pending"
          /\ ok => applied + Resolved(listFetches) < maxListings
          /\ listFetches' = (listFetches (-) One(f))
                 (+) One([f EXCEPT !.status = IF ok THEN "resolved" ELSE "rejected"])
    /\ UNCHANGED <<containers, loading, refreshing, error, refreshMs, isPaused,
                   lastUpdated, selectedId, detailById, detailLoading, detailError,
                   history, detailFetches, timers, applied>>
    /\ UNCHANGED <<serverVars, callVars>>

\* loadContainers after a successful await (lines 125-127, 131-137), then the
\* effects on containers: history (152-181) and selection reset (183-187)
LoadContainersFulfilled(ids) ==
    /\ \E f \in BagToSet(listFetches), data \in Datasets(applied + 1, ids) :
          /\ f.status = "resolved"
          /\ containers' = data
          /\ lastUpdated' = FetchedAt(applied + 1)
          /\ error' = NoString
          /\ refreshing' = (IF f.silent THEN FALSE ELSE refreshing)
          /\ loading' = (IF f.silent THEN loading ELSE FALSE)
          /\ history' = HistoryEffect(history, data)
          /\ selectedId' = SelectionEffect(data, selectedId)
          /\ listFetches' = listFetches (-) One(f)
    /\ applied' = applied + 1
    /\ UNCHANGED <<refreshMs, isPaused, detailById, detailLoading, detailError,
                   detailFetches, timers>>
    /\ UNCHANGED <<serverVars, callVars>>

\* loadContainers after a failed await (lines 128-137)
LoadContainersRejectedBlanks ==
    /\ \E f \in BagToSet(listFetches), message \in ListErrors :
          /\ f.status = "rejected"
          /\ error' = message
          /\ refreshing' = (IF f.silent THEN FALSE ELSE refreshing)
          /\ loading' = (IF f.silent THEN loading ELSE FALSE)
          /\ listFetches' = listFetches (-) One(f)
    /\ containers' = << >>
    /\ history' = HistoryEffect(history, << >>)
    /\ selectedId' = SelectionEffect(<< >>, selectedId)
    /\ lastUpdated' = NoString
    /\ UNCHANGED <<refreshMs, isPaused, detailById, detailLoading, detailError,
                   detailFetches, timers, applied>>
    /\ UNCHANGED <<serverVars, callVars>>

LoadContainersRejected ==
    /\ \E f \in BagToSet(listFetches), message \in ListErrors :
          /\ f.status = "rejected"
          /\ error' = message
          /\ refreshing' = (IF f.silent THEN FALSE ELSE refreshing)
          /\ loading' = (IF f.silent THEN loading ELSE FALSE)
          /\ listFetches' = listFetches (-) One(f)
    /\ UNCHANGED <<containers, refreshMs, isPaused, lastUpdated, selectedId,
                   detailById, detailLoading, detailError, history, detailFetches,
                   timers, applied>>
    /\ UNCHANGED <<serverVars, callVars>>

(***************************************************************************)
(* client/src/App.tsx: selection and the detail cache.                     *)
(***************************************************************************)
\* { ...prev, [containerId]: detail }
With(prev, containerId, detail) ==
    [id \in DOMAIN prev \cup {containerId} |->
        IF id = containerId THEN detail ELSE prev[id]]

\* a click on a row's name (lines 225-236, 316); rows are rendered while
\* not loading
handleSelect ==
    /\ ~loading
    /\ \E containerId \in Ids(containers) :
          IF selectedId = containerId
          THEN /\ selectedId' = NoString
               /\ detailError' = NoString
               /\ UNCHANGED <<detailLoading, detailFetches>>
          ELSE /\ selectedId' = containerId
               /\ IF containerId \notin DOMAIN detailById
                  THEN /\ InFlight < MaxInFlight
                       /\ StartDetail(containerId)
                  ELSE /\ detailError' = NoString
                       /\ UNCHANGED <<detailLoading, detailFetches>>
    /\ UNCHANGED <<containers, loading, refreshing, error, refreshMs, isPaused,
                   lastUpdated, detailById, history, listFetches, timers, applied>>
    /\ UNCHANGED <<serverVars, callVars>>

\* the Refresh Detail button (line 384), disabled while detailLoading
RefreshDetail ==
    /\ selectedId # NoString
    /\ ~detailLoading
    /\ InFlight < MaxInFlight
    /\ StartDetail(selectedId)
    /\ UNCHANGED <<containers, loading, refreshing, error, refreshMs, isPaused,
                   lastUpdated, selectedId, detailById, history, listFetches,
                   timers, applied>>
    /\ UNCHANGED <<serverVars, callVars>>

\* the Close button (line 387)
CloseDetail ==
    /\ selectedId # NoString
    /\ selectedId' = NoString
    /\ UNCHANGED <<containers, loading, refreshing, error, refreshMs, isPaused,
                   lastUpdated, detailById, detailLoading, detailError, history,
                   listFetches, detailFetches, timers, applied>>
    /\ UNCHANGED <<serverVars, callVars>>

\* fetchContainerDetail settles
FetchDetailSettles ==
    /\ \E f \in BagToSet(detailFetches), ok \in BOOLEAN :
          /\ f.status = "pending"
          /\ detailFetches' = (detailFetches (-) One(f))
                 (+) One([f EXCEPT !.status = IF ok THEN "resolved" ELSE "rejected"])
    /\ UNCHANGED <<containers, loading, refreshing, error, refreshMs, isPaused,
                   lastUpdated, selectedId, detailById, detailLoading, detailError,
                   history, listFetches, timers, applied>>
    /\ UNCHANGED <<serverVars, callVars>>

\* loadDetail after a successful await (lines 216, 220-222)
LoadDetailFulfilled ==
    /\ \E f \in BagToSet(detailFetches) :
          /\ f.status = "resolved"
          /\ \E detail \in DetailsOf(f.id) :
                detailById' = With(detailById, f.id, detail)
          /\ detailFetches' = detailFetches (-) One(f)
    /\ detailLoading' = FALSE
    /\ UNCHANGED <<containers, loading, refreshing, error, refreshMs, isPaused,
                   lastUpdated, selectedId, detailError, history, listFetches,
                   timers, applied>>
    /\ UNCHANGED <<serverVars, callVars>>

\* loadDetail after a failed await (lines 217-222)
LoadDetailRejected ==
    /\ \E f \in BagToSet(detailFetches), message \in DetailErrors :
          /\ f.status = "rejected"
          /\ detailError' = message
          /\ detailFetches' = detailFetches (-) One(f)
    /\ detailLoading' = FALSE
    /\ UNCHANGED <<containers, loading, refreshing, error, refreshMs, isPaused,
                   lastUpdated, selectedId, detailById, history, listFetches,
                   timers, applied>>
    /\ UNCHANGED <<serverVars, callVars>>

(***************************************************************************)
(* server/index.js: calls of the pure functions, one call per behaviour.   *)
(***************************************************************************)
NoCall == [fn |-> "none"]
NotReturned == [done |-> FALSE, value |-> Null]
Return(value) == [done |-> TRUE, value |-> value]

\* byte counts: num * k^exp with exp up to MaxUnitExp; past the unit table
\* only with a mantissa below k
ByteMantissas ==
    {1, 9, 10, 512, 1023, 1024, 1075, 1076, 1280, 1536, 10188, 10189, 10240,
     10752, 1048063, 1048064, 1048575, 1572864}

ByteCounts ==
    {Null, NaN, Num(0), Num(0 - 1)}
        \cup { Scaled(q, e) : q \in ByteMantissas, e \in 0..(Len(units) - 1) }
        \cup { Scaled(q, e) : q \in {m \in ByteMantissas : m < k},
                               e \in Len(units)..MaxUnitExp }

\* start timestamps, in milliseconds where they parse
StartTimes ==
    {NoTime, BadTime}
        \cup { TimeAt(ms) : ms \in {0, 1000, 4001, 5000, 5001,
                                     109939000, 113600000, 113601000,
                                     196339000, 196400000, 196401000,
                                     199910000, 199940000, 199940001,
                                     199999001, 200000000, 200000001,
                                     300000000} }

\* cpu samples of a stats snapshot: the current one and the previous one
CurrentCpu ==
    [total_usage : {0, 500000, 700000},
     system_cpu_usage : {0, 4000000, 5000000},
     online_cpus : 0..MaxOnlineCpus,
     percpu_usage : {[present |-> FALSE, length |-> 0],
                     [present |-> TRUE, length |-> 0],
                     [present |-> TRUE, length |-> 4]}]

PreviousCpu ==
    [total_usage : {0, 500000, 700000}, system_cpu_usage : {0, 4000000, 5000000}]

\* memory_stats of a stats snapshot; a stopped container's has no usage
MemoryStats ==
    [has_usage : {TRUE}, usage : {0, 1000, 3072}, cache : {0, 1536, 2000},
     limit : {0, 2048, 8192}]
        \cup [has_usage : {FALSE}, usage : {0}, cache : {0}, limit : {0, 8192}]

Calls ==
    { [fn |-> "formatBytes", bytes |-> b] : b \in ByteCounts }
        \cup { [fn |-> "formatDuration", start |-> st, now |-> t] :
                   st \in StartTimes, t \in NowChoices }
        \cup { [fn |-> "cpuPercent", stats |-> Null] }
        \cup { [fn |-> "cpuPercent",
                stats |-> [EngineStats(1) EXCEPT !.cpu_stats = cur,
                                                 !.precpu_stats = pre]] :
                   cur \in CurrentCpu \cup {Null}, pre \in PreviousCpu \cup {Null} }
        \cup { [fn |-> "memoryUsage", stats |-> Null] }
        \cup { [fn |-> "memoryUsage",
                stats |-> [EngineStats(1) EXCEPT !.memory_stats = m]] :
                   m \in MemoryStats \cup {Null} }

CallFormatBytes ==
    /\ call.fn = "formatBytes" /\ ~returned.done
    /\ returned' = Return(formatBytes(call.bytes))
    /\ UNCHANGED <<serverVars, clientVars, call>>

CallFormatDuration ==
    /\ call.fn = "formatDuration" /\ ~returned.done
    /\ returned' = Return(formatDuration(call.start, call.now))
    /\ UNCHANGED <<serverVars, clientVars, call>>

CallCpuPercent ==
    /\ call.fn = "cpuPercent" /\ ~returned.done
    /\ returned' = Return(cpuPercent(call.stats))
    /\ UNCHANGED <<serverVars, clientVars, call>>

CallMemoryUsage ==
    /\ call.fn = "memoryUsage" /\ ~returned.done
    /\ returned' = Return(memoryUsage(call.stats))
    /\ UNCHANGED <<serverVars, clientVars, call>>

(***************************************************************************)
(* Specifications.                                                         *)
(***************************************************************************)
\* the server before a request; App after its first render and its mount
\* effects: loadContainers() is awaiting (lines 140-142), the interval timer
\* is armed (144-150), the history effect ran on no containers (152-181)
ProgramInit ==
    /\ reqState = "idle"
    /\ listResult = "none"
    /\ listed = << >>
    /\ builds = << >>
    /\ response = NoResponse
    /\ now = 0
    /\ containers = << >>
    /\ loading = TRUE
    /\ refreshing = FALSE
    /\ error = NoString
    /\ refreshMs = 5000
    /\ isPaused = FALSE
    /\ lastUpdated = NoString
    /\ selectedId = NoString
    /\ detailById = << >>
    /\ detailLoading = FALSE
    /\ detailError = NoString
    /\ history = HistoryEffect(<< >>, << >>)
    /\ listFetches = One([silent |-> FALSE, status |-> "pending"])
    /\ detailFetches = EmptyBag
    /\ timers = TimerEffect(<< >>, TRUE, FALSE, 5000)
    /\ applied = 0

Init ==
    /\ ProgramInit
    /\ call = NoCall
    /\ returned = NotReturned

NextServer ==
    \/ Request
    \/ ListFails
    \/ ListSucceeds
    \/ FirstRound
    \/ Retry
    \/ Respond

SpecServer == Init /\ [][NextServer]_vars

\* one call of a pure function of the server on arguments of its domain
InitFunctions ==
    /\ ProgramInit
    /\ call \in Calls
    /\ returned = NotReturned

NextFunctions ==
    \/ CallFormatBytes
    \/ CallFormatDuration
    \/ CallCpuPercent
    \/ CallMemoryUsage

SpecFunctions == InitFunctions /\ [][NextFunctions]_vars

\* the dashboard without the Pause and interval controls: its timer stays
\* armed, and a tick may come at any moment or never
Next ==
    \/ Tick
    \/ handleManualRefresh
    \/ FetchContainersSettles(MaxListings)
    \/ LoadContainersFulfilled(ContainerIds)
    \/ LoadContainersRejected
    \/ handleSelect
    \/ RefreshDetail
    \/ CloseDetail
    \/ FetchDetailSettles
    \/ LoadDetailFulfilled
    \/ LoadDetailRejected

Spec == Init /\ [][Next]_vars

\* selection and detail over the timer's polling, the Refresh button left
\* alone
NextSelection ==
    \/ Tick
    \/ FetchContainersSettles(MaxListings)
    \/ LoadContainersFulfilled(ContainerIds)
    \/ LoadContainersRejected
    \/ handleSelect
    \/ RefreshDetail
    \/ CloseDetail
    \/ FetchDetailSettles
    \/ LoadDetailFulfilled
    \/ LoadDetailRejected

SpecSelection == Init /\ [][NextSelection]_vars

\* the polling loop with its controls, no row selected
NextPolling ==
    \/ Tick
    \/ handleManualRefresh
    \/ TogglePause
    \/ SetRefreshMs
    \/ FetchContainersSettles(MaxListings)
    \/ LoadContainersFulfilled(ContainerIds)
    \/ LoadContainersRejected

SpecPolling == Init /\ [][NextPolling]_vars

\* the polling loop left running, long enough for a history to overflow
NextHistory ==
    \/ Tick
    \/ FetchContainersSettles(HistoryListings)
    \/ LoadContainersFulfilled(LongLivedIds)
    \/ LoadContainersRejected

SpecHistory == Init /\ [][NextHistory]_vars

(***************************************************************************)
(* Properties of the listing endpoint (SpecServer).                        *)
(***************************************************************************)
SummaryFields ==
    {"id", "name", "state", "ports", "networks", "cpu", "memory", "netIO",
     "netIOBytes", "blockIO", "blockIOBytes", "pids", "uptime", "raw"}

\* every field of a summary is there, with a value or its fallback
WellFormed(s) ==
    /\ DOMAIN s = SummaryFields
    /\ s.id # "" /\ s.name # "" /\ s.raw.shortId # ""
    /\ s.state \in {"running", "paused", "restarting", "stopped", "unknown"}
    /\ s.ports # "" /\ s.networks # "" /\ s.uptime # ""
    /\ s.cpu \in Nat /\ s.pids \in Nat
    /\ s.memory.usage # "" /\ s.memory.limit # ""
    /\ ~s.memory.percent.nan /\ s.memory.percent.num \in Nat
    /\ s.netIO.rx # "" /\ s.netIO.tx # ""
    /\ s.netIOBytes.rx \in Nat /\ s.netIOBytes.tx \in Nat
    /\ s.blockIO.read # "" /\ s.blockIO.write # ""
    /\ s.blockIOBytes.read \in Nat /\ s.blockIOBytes.write \in Nat

\* the metric fields of a summary built without a stats snapshot
ZeroMetrics(s) ==
    /\ s.cpu = 0
    /\ s.memory = [usage |-> "0B", limit |-> "0B", percent |-> Num(0)]
    /\ s.netIOBytes = [rx |-> 0, tx |-> 0]
    /\ s.blockIOBytes = [read |-> 0, write |-> 0]

\* the inspect fields of a summary built without inspect data
NoInspectFields(s) ==
    s.state = "unknown" /\ s.uptime = "-" /\ s.networks = "-"

\* the name and the inspect fields container n's summary must carry
InspectFields(s, n) ==
    /\ s.name = (IF n % 2 = 1 THEN "web" \o ToString(n % 10)
                 ELSE Str(SubSeq(EngineInfo(n).Id, 1, ShortIdLen)))
    /\ s.state = containerState(EngineInspect(n))
    /\ s.state # "unknown"
    /\ s.uptime = formatDuration(EngineInspect(n).State.StartedAt, now)
    /\ s.networks = formatNetworks(EngineInspect(n).NetworkSettings)

\* C1: whenever the list call succeeded, no payload build throws, the
\* endpoint answers 200 with one well-formed summary per listed container in
\* the listed order, and what a summary lost to failed queries is decided by
\* the queries of its own container alone: the inspect fields fall back only
\* if that container's retried inspect failed, the metrics are zeroed only if
\* one of that container's first-round queries failed.
C1_PayloadBuildNeverThrows ==
    /\ \A i \in DOMAIN builds : builds[i].pc # "threw"
    /\ (reqState = "responded" /\ listResult = "ok") =>
          /\ response.status = 200
          /\ Len(response.containers) = Len(listed)
          /\ \A i \in DOMAIN listed :
                LET s == response.containers[i]
                    b == builds[i]
                IN  /\ WellFormed(s)
                    /\ s.id = Str(EngineInfo(listed[i]).Id)
                    /\ IF b.retry = "failed"
                       THEN NoInspectFields(s)
                       ELSE InspectFields(s, listed[i])
                    /\ IF b.retry = "none"
                       THEN s.cpu = ToFixed1(cpuPercent(EngineStats(listed[i])).num,
                                             cpuPercent(EngineStats(listed[i])).den)
                            /\ s.netIOBytes = networkIO(EngineStats(listed[i]))
                       ELSE ZeroMetrics(s)

\* C1 witness: a 200 answer with two summaries, the first degraded by a
\* failed first round and a failed retry, the second complete
C1_Witness ==
    /\ reqState = "responded" /\ listResult = "ok" /\ response.status = 200
    /\ Len(listed) = 2
    /\ builds[1].retry = "failed"
    /\ builds[2].retry = "none"
    /\ response.containers[1].state = "unknown"
    /\ response.containers[2].state # "unknown"

\* C2 (as claimed): a build whose stats query failed while its inspect query
\* succeeded returns the name, the state, the uptime and the networks of the
\* inspect data, and zero metrics.
C2_StatsFailureKeepsInspectFields ==
    \A i \in DOMAIN builds :
        (builds[i].pc = "done" /\ builds[i].firstStats = "failed"
            /\ builds[i].firstInspect = "ok")
        => /\ InspectFields(builds[i].payload, listed[i])
           /\ ZeroMetrics(builds[i].payload)

\* C10: every build issues exactly one stats query and one or two inspect
\* queries; the second inspect is issued exactly when a first-round query
\* failed; and a build whose retry failed ends with null inspect data and the
\* fallbacks 'unknown', '-', '-'.
C10_SingleInspectRetry ==
    \A i \in DOMAIN builds :
        LET b == builds[i]
            settled == b.pc # "round1"
            failedFirst == b.firstInspect = "failed" \/ b.firstStats = "failed"
        IN  /\ b.statsCalls = 1
            /\ b.inspectCalls \in {1, 2}
            /\ (settled /\ failedFirst) => (b.inspectCalls = 2 /\ b.retry # "none")
            /\ (~settled \/ ~failedFirst) => (b.inspectCalls = 1 /\ b.retry = "none")
            /\ (b.pc = "done" /\ b.retry = "failed") =>
                   (b.inspectInfo = Null /\ NoInspectFields(b.payload))
            /\ (b.pc = "done" /\ b.retry = "ok") => b.inspectInfo # Null

\* C10 witness: a finished build whose stats query alone failed and whose
\* retried inspect failed too
C10_Witness ==
    \E i \in DOMAIN builds :
        /\ builds[i].pc = "done"
        /\ builds[i].firstInspect = "ok" /\ builds[i].firstStats = "failed"
        /\ builds[i].retry = "failed"
        /\ builds[i].inspectCalls = 2

\* C15: a finished build holds a stats snapshot only if both first-round
\* queries succeeded.  If the first inspect failed while stats succeeded,
\* the snapshot is discarded: cpu, memory, network and block-IO fields take
\* their zero fallbacks, and pids is the inspect process id when the retried
\* inspect succeeded, 0 when it failed too.
C15_StatsNeedBothQueries ==
    \A i \in DOMAIN builds :
        LET b == builds[i]
            s == b.payload
        IN  b.pc = "done" =>
              /\ b.stats # Null <=> (b.firstInspect = "ok" /\ b.firstStats = "ok")
              /\ (b.firstInspect = "failed" /\ b.firstStats = "ok") =>
                    /\ ZeroMetrics(s)
                    /\ s.netIO = [rx |-> "0B", tx |-> "0B"]
                    /\ s.blockIO = [read |-> "0B", write |-> "0B"]
                    /\ s.pids = (IF b.retry = "ok"
                                 THEN EngineInspect(listed[i]).State.Pid ELSE 0)
                    /\ b.retry = "ok" => InspectFields(s, listed[i])

\* C15 witness: the first container's inspect failed beside a successful
\* stats query (40.0% cpu, 3 processes); the retried inspect succeeded and
\* the summary shows cpu 0 and the inspect process id
C15_Witness ==
    \E i \in DOMAIN builds :
        /\ listed[i] = 1
        /\ builds[i].pc = "done"
        /\ builds[i].firstInspect = "failed" /\ builds[i].firstStats = "ok"
        /\ builds[i].retry = "ok"
        /\ Summary(EngineInfo(1), EngineInspect(1), EngineStats(1), now).cpu = 400
        /\ EngineStats(1).pids_current = 3
        /\ builds[i].payload.cpu = 0
        /\ builds[i].payload.pids = 4001
        /\ builds[i].payload.state = "running"

(***************************************************************************)
(* Properties of the client.                                               *)
(***************************************************************************)
\* the fetches of a bag whose promise has not settled
Pending(fetches) ==
    BagCardinality([f \in {g \in BagToSet(fetches) : g.status = "pending"} |->
                        fetches[f]])

\* this step starts a listing fetch with the given silent option
Starts(silent) ==
    listFetches' = listFetches (+) One([silent |-> silent, status |-> "pending"])

\* this step runs the continuation of the settled listing fetch f
Completes(f) ==
    /\ BagIn(f, listFetches)
    /\ f.status # "pending"
    /\ listFetches' = listFetches (-) One(f)

SettledListFetches ==
    [silent : BOOLEAN, status : {"resolved", "rejected"}]

\* C3 (as claimed): at most one listing fetch and at most one detail fetch
\* await their response at any time.
C3_AtMostOneFetchOfEachKind ==
    Pending(listFetches) <= 1 /\ Pending(detailFetches) <= 1

\* C4 (as claimed): from 'ready', whatever starts a listing fetch moves to
\* 'refreshing' with the loading flag still false.
C4_RefreshFromReadyIsSilent ==
    [][(~loading /\ ~refreshing /\ (Starts(TRUE) \/ Starts(FALSE)))
          => (refreshing' /\ ~loading')]_vars

\* C4 (amended): the loading flag is true exactly while a non-silent fetch
\* (the initial one or a manual refresh) is in flight, and refreshing only
\* while a silent one is.  A fetch started while no timer is armed is a
\* manual refresh: it raises loading and leaves refreshing and the data
\* alone; a fetch started while loading is a timer tick: it raises
\* refreshing and leaves loading and the data alone.  The continuation of a
\* silent fetch clears refreshing and leaves loading, that of a non-silent
\* one clears loading and leaves refreshing.
C4_LoadingAndRefreshing ==
    /\ [](/\ loading <=> (\E f \in BagToSet(listFetches) : ~f.silent)
          /\ refreshing => (\E f \in BagToSet(listFetches) : f.silent))
    /\ [][/\ ((Starts(TRUE) \/ Starts(FALSE)) /\ timers = << >>)
                => (Starts(FALSE) /\ loading' /\ refreshing' = refreshing
                       /\ containers' = containers)
          /\ ((Starts(TRUE) \/ Starts(FALSE)) /\ loading)
                => (Starts(TRUE) /\ refreshing' /\ loading'
                       /\ containers' = containers)
          /\ Starts(TRUE) => (refreshing' /\ loading' = loading)
          /\ Starts(FALSE) => (loading' /\ ~loading /\ refreshing' = refreshing)
          /\ \A f \in SettledListFetches :
                Completes(f) =>
                    IF f.silent THEN ~refreshing' /\ loading' = loading
                                ELSE ~loading' /\ refreshing' = refreshing]_vars

\* C4 witness: a manual refresh from 'ready' with data on display: loading
\* again, while no timer is armed
C4_Witness ==
    /\ loading /\ ~refreshing /\ applied > 0 /\ containers # << >>
    /\ timers = << >>

\* C5: the continuation of a rejected listing fetch sets the error, leaves
\* the containers, the last-updated time and the history as they were and
\* clears the flag its fetch raised (only that one); the continuation of a
\* resolved listing fetch clears the error.
C5_FailedFetchKeepsData ==
    [][\A f \in SettledListFetches :
          Completes(f) =>
              /\ (IF f.silent THEN ~refreshing' /\ loading' = loading
                              ELSE ~loading' /\ refreshing' = refreshing)
              /\ IF f.status = "rejected"
                 THEN /\ error' # NoString
                      /\ containers' = containers
                      /\ lastUpdated' = lastUpdated
                      /\ history' = history
                 ELSE error' = NoString]_vars

\* C5 witness: the error banner over the data of an earlier listing, no
\* fetch in flight and both flags down
C5_Witness ==
    /\ error # NoString
    /\ applied > 0 /\ containers # << >> /\ lastUpdated # NoString
    /\ listFetches = EmptyBag /\ ~loading /\ ~refreshing

\* C6: at most one interval timer is armed: none while paused, otherwise
\* one with the selected interval; and a listing fetch started while paused
\* is never a silent (timer) one.
C6_OneTimerNoneWhilePaused ==
    /\ [](/\ Len(timers) <= 1
          /\ isPaused => timers = << >>
          /\ ~isPaused => timers = <<refreshMs>>)
    /\ [][isPaused => ~Starts(TRUE)]_vars

\* C6 witness: paused after the interval was changed, no timer armed
C6_Witness ==
    isPaused /\ refreshMs = 30000 /\ timers = << >>

Series == {"cpu", "mem", "netRx", "netTx", "blockRead", "blockWrite"}

\* C7: no series of any container ever holds more than HISTORY_POINTS
\* samples, and a listing applied to a full series drops its oldest sample:
\* the other 39 move up in order and the new sample comes last.
C7_HistoryWindow ==
    /\ [](\A id \in DOMAIN history : \A sr \in Series :
              Len(history[id][sr]) <= HISTORY_POINTS)
    /\ [][\A id \in DOMAIN history \cap DOMAIN history' : \A sr \in Series :
              (applied' = applied + 1 /\ Len(history[id][sr]) = HISTORY_POINTS)
              => /\ Len(history'[id][sr]) = HISTORY_POINTS
                 /\ SubSeq(history'[id][sr], 1, HISTORY_POINTS - 1)
                       = Tail(history[id][sr])
                 /\ history'[id].cpu[HISTORY_POINTS]
                       = LastWith(containers', id).cpu.v]_vars

\* C7 witness: a full history whose two oldest samples were dropped
C7_Witness ==
    /\ "a" \in DOMAIN history
    /\ Len(history["a"].cpu) = HISTORY_POINTS
    /\ history["a"].cpu[1] = 3
    /\ history["a"].cpu[HISTORY_POINTS] = HISTORY_POINTS + 2

\* C8: the history map is keyed by exactly the ids of the containers on
\* display; a container that enters the listing, for the first time or
\* again, holds one sample per series, that listing's.
C8_HistoryFollowsListing ==
    /\ [](DOMAIN history = Ids(containers))
    /\ [][\A id \in Ids(containers') \ Ids(containers) : \A sr \in Series :
              Len(history'[id][sr]) = 1]_vars

\* C8 witness: after three listings container a holds the third listing's
\* sample alone: it was missing from the second
C8_Witness ==
    /\ applied = 3
    /\ DOMAIN history = {"a"}
    /\ history["a"].cpu = <<3>>
    /\ history["a"].mem = <<103>>

(***************************************************************************)
(* Properties of the pure functions (SpecFunctions).                       *)
(***************************************************************************)
\* k^j <= num * k^exp, for num below 2^31
Fits(j, bytes) == j <= bytes.exp \/ (j - bytes.exp <= 3 /\ PowK(j - bytes.exp) <= bytes.num)

\* the text the unit formatter's description gives a byte count: '-' for
\* null, '0B' for zero, otherwise the count over the largest unit of the
\* table that fits, with no decimal from 10 on and for B, else with one
ClaimedBytesText(bytes) ==
    IF bytes = Null THEN "-"
    ELSE IF bytes.num = 0 THEN "0B"
    ELSE LET u == CHOOSE j \in 0..(Len(units) - 1) :
                      Fits(j, bytes) /\ (j = Len(units) - 1 \/ ~Fits(j + 1, bytes))
             sn == IF u >= bytes.exp THEN bytes.num
                   ELSE bytes.num * PowK(bytes.exp - u)
             sd == IF u >= bytes.exp THEN PowK(u - bytes.exp) ELSE 1
         IN  IF sn >= 10 * sd \/ u = 0
             THEN ToString(ToFixed0(sn, sd)) \o units[u + 1]
             ELSE TenthsText(ToFixed1(sn, sd)) \o units[u + 1]

\* C11 (as claimed): formatBytes(0) is "0B", formatBytes(1024) is "1K",
\* formatBytes(1536) is "1.5K", formatBytes(null) is "-", and every
\* non-negative byte count is printed over the largest fitting unit of
\* B/K/M/G/T, without a decimal if the scaled value is at least 10 or the
\* unit is B, with one decimal otherwise.
C11_FormatBytesScalesToUnit ==
    (call.fn = "formatBytes" /\ returned.done) =>
        /\ call.bytes = Num(0) => returned.value = "0B"
        /\ call.bytes = Num(1024) => returned.value = "1K"
        /\ call.bytes = Num(1536) => returned.value = "1.5K"
        /\ call.bytes = Null => returned.value = "-"
        /\ (call.bytes = Null \/ (~call.bytes.nan /\ call.bytes.num >= 0))
               => returned.value = ClaimedBytesText(call.bytes)

\* the whole seconds between a start that parses and the clock of the call
Elapsed(c) == (c.now - c.start.ms) \div 1000

\* the days, hours, minutes and seconds that make up a number of seconds
Parts(seconds) ==
    LET d == seconds \div 86400
        h == (seconds - 86400 * d) \div 3600
        m == (seconds - 86400 * d - 3600 * h) \div 60
    IN  [d |-> d, h |-> h, m |-> m,
         s |-> seconds - 86400 * d - 3600 * h - 60 * m]

\* a start for which the formatter's description expects '-'
NoElapsed(c) == c.start.kind # "time" \/ c.start.ms > c.now

\* the texts of one or two of the units h, m, s, coarser first
UpToTwoUnits(seconds) ==
    LET p == Parts(seconds)
        t == <<ToString(p.h) \o "h", ToString(p.m) \o "m", ToString(p.s) \o "s">>
    IN  { t[i] : i \in 1..3 } \cup { t[i] \o t[j] : i \in 1..2, j \in 2..3 }

\* C12 (as claimed): '-' for a missing, unparseable or future start; 90
\* seconds give "1m30s"; less than a day is printed with at most two units,
\* a day or more with days, hours and minutes.
C12_DurationTwoCoarsestUnits ==
    (call.fn = "formatDuration" /\ returned.done) =>
        IF NoElapsed(call) THEN returned.value = "-"
        ELSE LET p == Parts(Elapsed(call)) IN
             /\ Elapsed(call) = 90 => returned.value = "1m30s"
             /\ p.d > 0 => returned.value = ToString(p.d) \o "d" \o ToString(p.h)
                                                \o "h" \o ToString(p.m) \o "m"
             /\ p.d = 0 => returned.value \in UpToTwoUnits(Elapsed(call))

\* C12 (amended): '-' for a missing, unparseable or future start.  Otherwise
\* the elapsed whole seconds are printed from their coarsest non-zero unit
\* down, zero-valued finer units included: days, hours and minutes from a
\* day on (the seconds are dropped), hours, minutes and seconds from an
\* hour on, minutes and seconds from a minute on, seconds alone below.
C12_DurationFromCoarsestUnit ==
    (call.fn = "formatDuration" /\ returned.done) =>
        IF NoElapsed(call) THEN returned.value = "-"
        ELSE LET p == Parts(Elapsed(call))
                 d == ToString(p.d) \o "d"
                 h == ToString(p.h) \o "h"
                 m == ToString(p.m) \o "m"
                 sec == ToString(p.s) \o "s"
             IN  /\ returned.value # "-"
                 /\ Elapsed(call) = 90 => returned.value = "1m30s"
                 /\ Elapsed(call) = 3600 => returned.value = "1h0m0s"
                 /\ Elapsed(call) = 60 => returned.value = "1m0s"
                 /\ Elapsed(call) = 0 => returned.value = "0s"
                 /\ Elapsed(call) = 200000 => returned.value = "2d7h33m"
                 /\ returned.value =
                        (CASE p.d > 0 -> d \o h \o m
                           [] p.d = 0 /\ p.h > 0 -> h \o m \o sec
                           [] p.d = 0 /\ p.h = 0 /\ p.m > 0 -> m \o sec
                           [] OTHER -> sec)

\* C12 witness: one hour and one minute ago, printed with three units
C12_Witness ==
    /\ call.fn = "formatDuration" /\ returned.done
    /\ ~NoElapsed(call)
    /\ Elapsed(call) = 3661
    /\ returned.value = "1h1m1s"

\* a snapshot that carries both cpu samples
PairedSamples(stats) ==
    stats # Null /\ stats.cpu_stats # Null /\ stats.precpu_stats # Null

\* the core count of a snapshot: the online-core count if present, else
\* the length of the per-core usage list, else 1
Cores(stats) ==
    IF stats.cpu_stats.online_cpus > 0 THEN stats.cpu_stats.online_cpus
    ELSE IF stats.cpu_stats.percpu_usage.present
         THEN stats.cpu_stats.percpu_usage.length
         ELSE 1

\* C13: for a snapshot with both cpu samples, the cpu value is 0 whenever
\* the total-usage delta or the system-usage delta is not positive, in
\* particular when the system delta is 0; otherwise it is total delta /
\* system delta x cores x 100, the cores being the online-core count, else
\* the length of the per-core list, else 1.  Total delta 200000, system
\* delta 1000000 and 2 cores give a summary cpu of 40.0.  Without a
\* snapshot the value is 0.
C13_CpuPercent ==
    (call.fn = "cpuPercent" /\ returned.done) =>
        IF ~PairedSamples(call.stats) THEN returned.value = Num(0)
        ELSE LET totalDelta == call.stats.cpu_stats.total_usage
                                  - call.stats.precpu_stats.total_usage
                 systemDelta == call.stats.cpu_stats.system_cpu_usage
                                   - call.stats.precpu_stats.system_cpu_usage
                 cores == Cores(call.stats)
                 shown == Summary(EngineInfo(1), Null, call.stats, 0).cpu
             IN  /\ systemDelta = 0 => (returned.value = Num(0) /\ shown = 0)
                 /\ (totalDelta <= 0 \/ systemDelta <= 0)
                        => (returned.value = Num(0) /\ shown = 0)
                 /\ (totalDelta > 0 /\ systemDelta > 0)
                        => /\ ~returned.value.nan
                           /\ returned.value.num = totalDelta * cores * 100
                           /\ returned.value.den = systemDelta
                           /\ returned.value.exp = 0
                 /\ (totalDelta = 200000 /\ systemDelta = 1000000 /\ cores = 2)
                        => shown = 400

\* C13 witness: total delta 200000, system delta 1000000, two online cores
\* beside a per-core list of four: 40.0
C13_Witness ==
    /\ call.fn = "cpuPercent" /\ returned.done
    /\ PairedSamples(call.stats)
    /\ call.stats.cpu_stats.total_usage - call.stats.precpu_stats.total_usage = 200000
    /\ call.stats.cpu_stats.system_cpu_usage
          - call.stats.precpu_stats.system_cpu_usage = 1000000
    /\ call.stats.cpu_stats.online_cpus = 2
    /\ call.stats.cpu_stats.percpu_usage = [present |-> TRUE, length |-> 4]
    /\ returned.value = Ratio(40000000, 1000000)
    /\ Summary(EngineInfo(1), Null, call.stats, 0).cpu = 400

SelectedDetailInFlight ==
    \E f \in BagToSet(detailFetches) : f.id = selectedId

\* C16 (as claimed): while a container is selected, the detail-loading flag
\* is true exactly while a detail fetch for that container is in flight, and
\* no detail error is on display while such a fetch is still in flight.
C16_DetailFlagsOfSelected ==
    selectedId # NoString =>
        /\ detailLoading <=> SelectedDetailInFlight
        /\ detailError # NoString => ~SelectedDetailInFlight

\* the shorter of two lengths
Min(a, b) == IF a <= b THEN a ELSE b

\* C17: the six series of a container always have one length, between 1
\* and HISTORY_POINTS.  Applying a listing gives each container in it one
\* more sample per series than it had (HISTORY_POINTS at most), one sample
\* if the listing before did not hold it; the newest sample of every series
\* is that listing's.  No other step, a failed fetch included, changes the
\* history.  Hence the length is min(40, the number of consecutive applied
\* listings that held the container).
C17_OneSamplePerListing ==
    /\ [](\A id \in DOMAIN history : \A sr \in Series :
              /\ Len(history[id][sr]) = Len(history[id].cpu)
              /\ Len(history[id][sr]) \in 1..HISTORY_POINTS)
    /\ [][IF applied' = applied + 1
          THEN \A id \in Ids(containers') : \A sr \in Series :
                   /\ Len(history'[id][sr]) =
                         (IF id \in Ids(containers)
                          THEN Min(HISTORY_POINTS, Len(history[id][sr]) + 1)
                          ELSE 1)
                   /\ history'[id].cpu[Len(history'[id].cpu)] = applied'
                   /\ history'[id].blockWrite[Len(history'[id].blockWrite)]
                         = 500 + applied'
          ELSE history' = history]_vars

\* C17 witness: container a was missing from the fourth listing and is back
\* since the fifth; after the seventh a fetch failed.  Every series holds
\* the three samples of listings five to seven.
C17_Witness ==
    /\ applied = 7
    /\ error # NoString /\ listFetches = EmptyBag
    /\ "a" \in DOMAIN history
    /\ history["a"].cpu = <<5, 6, 7>>
    /\ history["a"].netTx = <<305, 306, 307>>
    /\ \A sr \in Series : Len(history["a"][sr]) = 3

\* C18: the selected id is null or the id of a container of the listing on
\* display.  Applying a listing without the selected container clears the
\* selection in the same step.  A new selection is a container on display.
\* A step that clears the selection starts no detail fetch, and a detail
\* fetch started under an unchanged selection is a Refresh Detail (the
\* loading flag was down), never a click on the selected row.
C18_SelectionInDataset ==
    /\ [](selectedId = NoString \/ selectedId \in Ids(containers))
    /\ [][/\ (applied' = applied + 1 /\ selectedId \notin Ids(containers'))
                => selectedId' = NoString
          /\ (applied' = applied + 1 /\ selectedId \in Ids(containers'))
                => selectedId' = selectedId
          /\ (selectedId' # selectedId /\ selectedId' # NoString)
                => (selectedId' \in Ids(containers) /\ containers' = containers)
          /\ (selectedId # NoString /\ selectedId' = NoString)
                => detailFetches' = detailFetches
          /\ (selectedId' = selectedId /\ detailFetches' # detailFetches
                 /\ BagCardinality(detailFetches') > BagCardinality(detailFetches))
                => ~detailLoading]_vars

\* C18 witness: container b was selected and its detail fetch is still in
\* flight; the second listing came without b and nothing is selected
C18_Witness ==
    /\ applied = 2
    /\ selectedId = NoString
    /\ "b" \notin Ids(containers) /\ "a" \in Ids(containers)
    /\ detailLoading
    /\ detailFetches = One([id |-> "b", status |-> "pending"])
    /\ detailById = << >>

\* C9 (as claimed): the detail cache holds no record for an id that is not
\* in the listing on display.
C9_NoDetailOfVanished ==
    DOMAIN detailById \subseteq Ids(containers)

=============================================================================
